---- MODULE Spec2Model ----
(***************************************************************************)
(* Model of src/app.py: the Streamlit application that unifies uploaded    *)
(* Excel files (unificar_archivos_subidos, tab 1 of main) and asks a       *)
(* Tableau Server to refresh a data source (tab 2 of main).                *)
(*                                                                         *)
(* One script run of main() is one action: a click on "Unificar Archivos"  *)
(* (ClickUnificar), a submit of the Tableau form (ClickConectar), or a     *)
(* rerun without either button (Rerun).  st.session_state survives the     *)
(* runs; everything else is rebuilt by each run.                           *)
(***************************************************************************)
EXTENDS Integers, Sequences, FiniteSets, TLC

VARIABLES
    session,   \* st.session_state: a function from attribute names to values
    ui,        \* the st.* elements emitted by the last script run, in order
    calls,     \* the library calls made by the last script run
    ret,       \* (df_unificado, mensaje) returned by the last call of unificar_archivos_subidos
    req,       \* the widget values and the environment's answers of the run
    pc,        \* "ready" before the run of a one-run specification, "done" after a run
    exc        \* TRUE when the last script run ended in an uncaught exception

vars == <<session, ui, calls, ret, req, pc, exc>>

----------------------------------------------------------------------------
(* Bounds *)

MaxFiles == 3       \* longest batch of uploaded files (one-run merge specification)
MaxSesFiles == 2    \* longest batch of uploaded files (session specification)
MaxDS == 15         \* most data sources the server holds

----------------------------------------------------------------------------
(* Values *)

Min(a, b) == IF a < b THEN a ELSE b

\* Python's None and a present value
None == [some |-> FALSE, rows |-> <<>>]
Some(filas) == [some |-> TRUE, rows |-> filas]

\* One st.* call: kind is the streamlit function, tag the message template,
\* s its string arguments, n its numeric arguments, rows the table data.
Ev(kind, tag, s, n) == [kind |-> kind, tag |-> tag, s |-> s, n |-> n, rows |-> <<>>]
EvData(kind, tag, s, filas) == [kind |-> kind, tag |-> tag, s |-> s, n |-> <<>>, rows |-> filas]

NoCalls == [read |-> <<>>, write |-> 0, connect |-> 0, lookup |-> 0, list |-> 0,
            refresh |-> 0, signOut |-> 0]

EmptySession == [k \in {} |-> None]
HasAttr(s, k) == k \in DOMAIN s
SetAttr(s, k, v) == [x \in (DOMAIN s) \cup {k} |-> IF x = k THEN v ELSE s[x]]

Count(seq, kind, tag) == Len(SelectSeq(seq, LAMBDA e : e.kind = kind /\ e.tag = tag))

----------------------------------------------------------------------------
(* Uploaded files *)

\* str.lower() on the suffixes the uploader accepts (type=["xls", "xlsx"])
Lower(s) == CASE s = "XLS" -> "xls"
              [] s = "XLSX" -> "xlsx"
              [] OTHER -> s

\* nombre_archivo.lower().split('.')[-1] for a name "stem.suffix"
Extension(nombre) == Lower(nombre.suffix)

\* The engine passed to pd.read_excel
Engine(nombre) == IF Extension(nombre) = "xls" THEN "xlrd" ELSE "None"

\* The rows of the sheet of a file: row k of file f is the value <<f, k>>
FilasDe(archivo) == [k \in 1..archivo.filas |-> [f |-> archivo.name.stem, k |-> k]]

\* pd.read_excel(archivo, sheet_name, engine): xlrd reads only the legacy
\* binary format, engine None lets pandas pick the reader from the content;
\* a missing sheet or an unreadable workbook raises.
ReadExcel(archivo, sheet_name, engine) ==
    IF archivo.fmt = "corrupt" \/ (engine = "xlrd" /\ archivo.fmt # "legacy")
    THEN [ok |-> FALSE, df |-> <<>>, err |-> "formato"]
    ELSE IF archivo.hoja # sheet_name
    THEN [ok |-> FALSE, df |-> <<>>, err |-> "hoja"]
    ELSE [ok |-> TRUE, df |-> FilasDe(archivo), err |-> ""]

File(stem, suffix, fmt, hoja, filas) ==
    [name |-> [stem |-> stem, suffix |-> suffix], fmt |-> fmt, hoja |-> hoja, filas |-> filas]

\* The files of the one-run merge specification
Files ==
    { File("a", "xlsx", "modern", "Itemization", 10),
      File("b", "xls", "legacy", "Itemization", 15),
      File("c", "XLSX", "modern", "Itemization", 0),
      File("d", "xlsx", "modern", "Hoja1", 2),
      File("e", "xlsx", "corrupt", "Itemization", 3),
      File("f", "XLS", "modern", "Itemization", 1) }

\* The files of the session specification
SesFiles ==
    { File("a", "xlsx", "modern", "Itemization", 1),
      File("d", "xlsx", "modern", "Hoja1", 2) }

RECURSIVE SeqsUpTo(_, _)
SeqsUpTo(S, n) ==
    IF n = 0 THEN {<<>>}
    ELSE LET shorter == SeqsUpTo(S, n - 1)
         IN  shorter \cup {Append(q, x) : q \in shorter, x \in S}

HojasEntrada == {"Itemization", "Hoja1", ""}
HojasSalida == {"Datos_Unificados", "Datos/2024"}

----------------------------------------------------------------------------
(* unificar_archivos_subidos *)

\* The state of the loop: dfs, archivos_ok, the elements written so far and
\* the files handed to pd.read_excel so far.
LoopInit == [dfs |-> <<>>, archivos_ok |-> 0, ui |-> <<>>, read |-> <<>>]

\* PasoArchivo with a fault: the except branch also counts the file as read.
PasoArchivoCuentaFallos(st, archivos, i, nombre_hoja) ==
    LET archivo == archivos[i]
        r == ReadExcel(archivo, nombre_hoja, Engine(archivo.name))
        w == Append(st.ui, Ev("write", "procesando", <<archivo.name.stem>>, <<>>))
    IN  IF r.ok
        THEN [dfs |-> Append(st.dfs, r.df),
              archivos_ok |-> st.archivos_ok + 1,
              ui |-> w \o << Ev("write", "leidas", <<>>, <<Len(r.df)>>),
                             Ev("progress", "barra", <<>>, <<i, Len(archivos)>>),
                             Ev("write", "procesados", <<>>, <<i, Len(archivos)>>) >>,
              read |-> Append(st.read, i)]
        ELSE [dfs |-> st.dfs,
              archivos_ok |-> st.archivos_ok + 1,
              ui |-> Append(w, Ev("error", "error_procesar", <<archivo.name.stem, r.err>>, <<>>)),
              read |-> Append(st.read, i)]

\* One iteration of the for loop, the i-th file (1-based here, i+1 in the code)
PasoArchivo(st, archivos, i, nombre_hoja) ==
    LET archivo == archivos[i]
        r == ReadExcel(archivo, nombre_hoja, Engine(archivo.name))
        w == Append(st.ui, Ev("write", "procesando", <<archivo.name.stem>>, <<>>))
    IN  IF r.ok
        THEN [dfs |-> Append(st.dfs, r.df),
              archivos_ok |-> st.archivos_ok + 1,
              ui |-> w \o << Ev("write", "leidas", <<>>, <<Len(r.df)>>),
                             Ev("progress", "barra", <<>>, <<i, Len(archivos)>>),
                             Ev("write", "procesados", <<>>, <<i, Len(archivos)>>) >>,
              read |-> Append(st.read, i)]
        ELSE [dfs |-> st.dfs,
              archivos_ok |-> st.archivos_ok,
              ui |-> Append(w, Ev("error", "error_procesar", <<archivo.name.stem, r.err>>, <<>>)),
              read |-> Append(st.read, i)]

RECURSIVE Bucle(_, _, _, _)
Bucle(st, archivos, i, nombre_hoja) ==
    IF i > Len(archivos) THEN st
    ELSE Bucle(PasoArchivo(st, archivos, i, nombre_hoja), archivos, i + 1, nombre_hoja)

\* Concat with a fault: each table is put in front of the ones before it.
RECURSIVE ConcatAlReves(_)
ConcatAlReves(dfs) ==
    IF dfs = <<>> THEN <<>> ELSE ConcatAlReves(Tail(dfs)) \o Head(dfs)

\* Concat with a fault: the last table is left out.
RECURSIVE ConcatSinUltimo(_)
ConcatSinUltimo(dfs) ==
    IF Len(dfs) <= 1 THEN <<>> ELSE Head(dfs) \o ConcatSinUltimo(Tail(dfs))

\* pd.concat(dfs, ignore_index=True): the rows of the tables one after the
\* other, renumbered 0..n-1 (the position in the sequence).
RECURSIVE Concat(_)
Concat(dfs) ==
    IF dfs = <<>> THEN <<>> ELSE Head(dfs) \o Concat(Tail(dfs))

\* SinTablas with a fault: an empty list of tables is concatenated as well.
SinTablasNunca(dfs) == FALSE

\* "if not dfs"
SinTablas(dfs) == dfs = <<>>

\* The call: the returned pair and what the call wrote and read.
unificar_archivos_subidos(archivos, nombre_hoja) ==
    IF archivos = <<>>
    THEN [df |-> None, mensaje |-> Ev("mensaje", "sin_archivos", <<>>, <<>>),
          ui |-> <<>>, read |-> <<>>]
    ELSE LET st == Bucle(LoopInit, archivos, 1, nombre_hoja)
         IN  IF SinTablas(st.dfs)
             THEN [df |-> None, mensaje |-> Ev("mensaje", "ninguno_procesado", <<>>, <<>>),
                   ui |-> st.ui, read |-> st.read]
             ELSE LET df_final == Concat(st.dfs)
                  IN  [df |-> Some(df_final),
                       mensaje |-> Ev("mensaje", "unificado", <<>>,
                                      <<st.archivos_ok, Len(df_final)>>),
                       ui |-> Append(st.ui, Ev("write", "fusionando", <<>>, <<>>)),
                       read |-> st.read]

NoRet == [df |-> None, mensaje |-> Ev("mensaje", "sin_llamada", <<>>, <<>>)]

----------------------------------------------------------------------------
(* Tab 1 of main: "Unificar Archivos" *)

\* One script run while it executes: the session, the elements and calls so
\* far, the pair returned by unificar_archivos_subidos, and whether an
\* exception has left main.
RunInit(s) == [session |-> s, ui |-> <<>>, calls |-> NoCalls, ret |-> NoRet, exc |-> FALSE]

\* openpyxl refuses a sheet title that holds one of \ * ? : / [ ]
TituloInvalido(sheet_name) == sheet_name \in {"Datos/2024"}

\* pd.ExcelWriter(excel_buffer, engine='openpyxl') with
\* df.to_excel(writer, sheet_name=..., index=False): one sheet of that name
\* holding the rows without an index column; raises on an invalid title.
ToExcel(df, sheet_name) ==
    IF TituloInvalido(sheet_name)
    THEN [ok |-> FALSE, buf |-> [sheet |-> "", rows |-> <<>>]]
    ELSE [ok |-> TRUE, buf |-> [sheet |-> sheet_name, rows |-> df]]

\* df.head(10)
Head10(df) == SubSeq(df, 1, Min(Len(df), 10))

NombreArchivoSalida == "Archivo_Unificado.xlsx"

\* "if unificar_button:" and its body
Tab1(R, unificar_button, uploaded_files, nombre_hoja, nombre_hoja_salida) ==
    IF ~unificar_button THEN R
    ELSE IF uploaded_files = <<>>
    THEN [R EXCEPT !.ui = Append(@, Ev("error", "sube_archivo", <<>>, <<>>))]
    ELSE IF nombre_hoja = ""
    THEN [R EXCEPT !.ui = Append(@, Ev("error", "especifica_hoja", <<>>, <<>>))]
    ELSE
      LET u == unificar_archivos_subidos(uploaded_files, nombre_hoja)
          R1 == [R EXCEPT !.ui = @ \o u.ui,
                          !.calls.read = u.read,
                          !.ret = [df |-> u.df, mensaje |-> u.mensaje]]
      IN  IF u.df.some
          THEN
            LET df == u.df.rows
                s1 == SetAttr(R1.session, "df_unificado", df)
                ui1 == R1.ui \o << [u.mensaje EXCEPT !.kind = "success"],
                                   Ev("write", "vista_previa", <<>>, <<>>),
                                   EvData("dataframe", "vista_previa", <<>>, Head10(df)) >>
                w == ToExcel(df, nombre_hoja_salida)
            IN  IF ~w.ok
                THEN [R1 EXCEPT !.session = s1, !.ui = ui1, !.calls.write = @ + 1,
                                !.exc = TRUE]
                ELSE [R1 EXCEPT
                        !.session = SetAttr(SetAttr(s1, "excel_buffer", w.buf),
                                            "nombre_archivo", NombreArchivoSalida),
                        !.ui = Append(ui1, EvData("download", "descargar_unificado",
                                                  <<NombreArchivoSalida, w.buf.sheet>>,
                                                  w.buf.rows)),
                        !.calls.write = @ + 1]
          ELSE [R1 EXCEPT !.ui = Append(@, [u.mensaje EXCEPT !.kind = "error"])]

----------------------------------------------------------------------------
(* Tableau Server, as the tableauserverclient calls see it *)

\* server.version, a string "major.minor": minor holds the digits after the dot
Version(major, minor) == [major |-> major, minor |-> minor]

\* float(server.version), times 100 (the versions here have one or two digits
\* after the dot, so the value is exact)
FloatX100(v) ==
    v.major * 100 + (IF Len(v.minor) = 1 THEN v.minor[1] * 10
                     ELSE v.minor[1] * 10 + v.minor[2])

\* "if float(server.version) < 2.8"
VersionBaja(v) == FloatX100(v) < 280

\* The data sources a server holds, in server order: ids 1..n, the names
\* "A" and "B" in turn (several data sources may bear one name)
Fuentes(n) == [i \in 1..n |-> [id |-> i, name |-> IF i % 2 = 1 THEN "A" ELSE "B"]]

NoServer == [some |-> FALSE, url |-> "", site |-> "", user |-> <<>>, verify |-> TRUE,
             version |-> Version(0, <<0>>)]

\* conectar_tableau_server: TableauAuth, Server(use_server_version=True),
\* the SSL option and sign_in inside one try
conectar_tableau_server(server_url, site_name, username, password, disable_ssl, env) ==
    IF env.connectOk
    THEN [server |-> [some |-> TRUE, url |-> server_url, site |-> site_name,
                      user |-> username, verify |-> ~disable_ssl,
                      version |-> env.version],
          mensaje |-> Ev("mensaje", "conexion_exitosa", <<>>,
                         <<env.version.major>> \o env.version.minor)]
    ELSE [server |-> NoServer,
          mensaje |-> Ev("mensaje", "error_conectar", <<"causa">>, <<>>)]

NoDatasource == [some |-> FALSE, id |-> 0, name |-> ""]

\* buscar_fuente_datos: the server applies the Name Equals filter, the
\* first data source of the answer is taken
buscar_fuente_datos(server, datasource_name, env) ==
    IF ~env.lookupOk
    THEN [datasource |-> NoDatasource,
          mensaje |-> Ev("mensaje", "error_buscar", <<"causa">>, <<>>)]
    ELSE LET all_datasources == SelectSeq(env.fuentes, LAMBDA d : d.name = datasource_name)
         IN  IF all_datasources = <<>>
             THEN [datasource |-> NoDatasource,
                   mensaje |-> Ev("mensaje", "no_encontrada", <<datasource_name>>, <<>>)]
             ELSE [datasource |-> [some |-> TRUE, id |-> all_datasources[1].id,
                                   name |-> all_datasources[1].name],
                   mensaje |-> Ev("mensaje", "encontrada", <<>>, <<all_datasources[1].id>>)]

\* obtener_fuentes_datos_disponibles: the names the server answers with,
\* or the empty list when the call raises
obtener_fuentes_datos_disponibles(server, env) ==
    IF env.listOk THEN [i \in 1..Len(env.fuentes) |-> env.fuentes[i].name] ELSE <<>>

----------------------------------------------------------------------------
(* Tab 2 of main: "Conectar a Tableau" *)

\* nombre_sitio as the form computes it
NombreSitio(form) == IF ~form.sitio_predeterminado THEN form.nombre_sitio ELSE ""

\* usuario as the form computes it: "DOMAIN\user" with a domain, else the name
Usuario(form) ==
    IF form.usar_dominio
    THEN IF form.dominio # "" /\ form.usuario_base # ""
         THEN <<form.dominio, form.usuario_base>>
         ELSE <<>>
    ELSE IF form.usuario # "" THEN <<form.usuario>> ELSE <<>>

\* "if not tableau_server or not usuario or not contraseña or not nombre_fuente_datos"
FaltanCampos(form) ==
    \/ form.tableau_server = ""
    \/ Usuario(form) = <<>>
    \/ form.contrasena = ""
    \/ form.nombre_fuente_datos = ""

\* The manual-update block, shown only "if hasattr(st.session_state, 'excel_buffer')":
\* the heading, the numbered instructions and the download button
InstruccionesManuales(R, tableau_server, nombre_fuente_datos) ==
    IF HasAttr(R.session, "excel_buffer")
    THEN [R EXCEPT !.ui = @ \o
            << Ev("write", "instrucciones_titulo", <<>>, <<>>),
               Ev("code", "instrucciones", <<tableau_server, nombre_fuente_datos>>, <<>>),
               EvData("download", "descargar_manual",
                      <<R.session["nombre_archivo"], R.session["excel_buffer"].sheet>>,
                      R.session["excel_buffer"].rows) >>]
    ELSE R

\* Listado with a fault: the names are cut after the ninth.
ListadoNueve(R, fuentes_disponibles) ==
    IF fuentes_disponibles # <<>>
    THEN LET k == Min(Len(fuentes_disponibles), 9)
             nombres == [i \in 1..k |-> Ev("write", "fuente", <<fuentes_disponibles[i]>>, <<i>>)]
             resto == IF Len(fuentes_disponibles) > 10
                      THEN << Ev("write", "y_mas", <<>>, <<Len(fuentes_disponibles) - 10>>) >>
                      ELSE <<>>
         IN  [R EXCEPT !.ui = @ \o << Ev("write", "fuentes_disponibles", <<>>, <<>>) >>
                                  \o nombres \o resto]
    ELSE R

\* The listing of the available data sources: fuentes_disponibles[:10],
\* numbered from 1, and "... y N más" beyond ten
Listado(R, fuentes_disponibles) ==
    IF fuentes_disponibles # <<>>
    THEN LET k == Min(Len(fuentes_disponibles), 10)
             nombres == [i \in 1..k |-> Ev("write", "fuente", <<fuentes_disponibles[i]>>, <<i>>)]
             resto == IF Len(fuentes_disponibles) > 10
                      THEN << Ev("write", "y_mas", <<>>, <<Len(fuentes_disponibles) - 10>>) >>
                      ELSE <<>>
         IN  [R EXCEPT !.ui = @ \o << Ev("write", "fuentes_disponibles", <<>>, <<>>) >>
                                  \o nombres \o resto]
    ELSE R

\* The branch taken once the data source is found
Actualizar(R, server, datasource, form, env) ==
    IF VersionBaja(server.version)
    THEN InstruccionesManuales(
           [R EXCEPT !.ui = @ \o
              << Ev("warning", "version_no_soporta", <<>>,
                    <<server.version.major>> \o server.version.minor),
                 Ev("info", "actualizacion_manual", <<>>, <<>>) >>],
           form.tableau_server, form.nombre_fuente_datos)
    ELSE LET R1 == [R EXCEPT !.ui = Append(@, Ev("write", "solicitando", <<>>, <<>>)),
                             !.calls.refresh = @ + 1]
         IN  IF env.refreshOk
             THEN [R1 EXCEPT !.ui = Append(@, Ev("success", "trabajo_iniciado", <<>>,
                                                 <<datasource.id>>))]
             ELSE InstruccionesManuales(
                    [R1 EXCEPT !.ui = @ \o
                       << Ev("error", "error_actualizacion", <<"causa">>, <<>>),
                          Ev("info", "actualizacion_manual", <<>>, <<>>) >>],
                    form.tableau_server, form.nombre_fuente_datos)

\* "if submit_tableau:" and its body
Submit(R, form, env) ==
    IF FaltanCampos(form)
    THEN [R EXCEPT !.ui = Append(@, Ev("error", "completa_campos", <<>>, <<>>))]
    ELSE
      LET c == conectar_tableau_server(form.tableau_server, NombreSitio(form),
                                       Usuario(form), form.contrasena,
                                       form.deshabilitar_ssl, env)
          R1 == [R EXCEPT !.calls.connect = @ + 1]
      IN  IF c.server.some
          THEN
            LET b == buscar_fuente_datos(c.server, form.nombre_fuente_datos, env)
                R2 == [R1 EXCEPT
                         !.session = SetAttr(@, "server", c.server),
                         !.ui = @ \o << [c.mensaje EXCEPT !.kind = "success"],
                                        Ev("write", "buscando",
                                           <<form.nombre_fuente_datos>>, <<>>) >>,
                         !.calls.lookup = @ + 1]
            IN  IF b.datasource.some
                THEN Actualizar([R2 EXCEPT !.ui = Append(@, [b.mensaje EXCEPT
                                                              !.kind = "success"])],
                                c.server, b.datasource, form, env)
                ELSE Listado([R2 EXCEPT !.ui = Append(@, [b.mensaje EXCEPT !.kind = "error"]),
                                        !.calls.list = @ + 1],
                             obtener_fuentes_datos_disponibles(c.server, env))
          ELSE [R1 EXCEPT !.ui = Append(@, [c.mensaje EXCEPT !.kind = "error"])]

\* CerrarSesion with a fault: no sign-out unless the last element is a success.
CerrarSesionSoloExito(R, env) ==
    IF HasAttr(R.session, "server") /\ R.ui[Len(R.ui)].kind = "success"
    THEN [R EXCEPT !.calls.signOut = @ + 1]
    ELSE R

\* "if hasattr(st.session_state, 'server'):" try sign_out, except pass
CerrarSesion(R, env) ==
    IF HasAttr(R.session, "server")
    THEN [R EXCEPT !.calls.signOut = @ + 1]
    ELSE R

\* "with tab2:" and its body
Tab2(R, submit_tableau, form, env) ==
    IF ~HasAttr(R.session, "df_unificado")
    THEN [R EXCEPT !.ui = Append(@, Ev("warning", "primero_unificar", <<>>, <<>>))]
    ELSE LET R1 == [R EXCEPT !.ui = Append(@, Ev("success", "datos_listos", <<>>, <<>>))]
             R2 == IF submit_tableau THEN Submit(R1, form, env) ELSE R1
         IN  CerrarSesion(R2, env)

\* One script run of main(): tab 1, then tab 2 unless an exception left tab 1
\* (tab 3 is static text)
Main(s, unificar_button, uploaded_files, hoja, hoja_salida, submit_tableau, form, env) ==
    LET R1 == Tab1(RunInit(s), unificar_button, uploaded_files, hoja, hoja_salida)
    IN  IF R1.exc THEN R1 ELSE Tab2(R1, submit_tableau, form, env)

----------------------------------------------------------------------------
(* Widget values and answers of the environment *)

Form(url, predeterminado, sitio, usar_dominio, dominio, base, usuario, clave, ssl, fuente) ==
    [tableau_server |-> url, sitio_predeterminado |-> predeterminado,
     nombre_sitio |-> sitio, usar_dominio |-> usar_dominio, dominio |-> dominio,
     usuario_base |-> base, usuario |-> usuario, contrasena |-> clave,
     deshabilitar_ssl |-> ssl, nombre_fuente_datos |-> fuente]

\* The form as first rendered, nothing typed
NoForm == Form("", TRUE, "", TRUE, "", "", "", "", TRUE, "")

URL == "https://tableau.example"

\* The forms of the one-run remote specification: only the inputs that are
\* rendered carry a value
Forms ==
    { Form(u, sp, ns, ud, d, ub, us, pw, ssl, nf) :
        u \in {"", URL}, sp \in BOOLEAN, ns \in {"", "ventas"}, ud \in BOOLEAN,
        d \in {"", "JUNTA"}, ub \in {"", "ana"}, us \in {"", "ana"},
        pw \in {"", "secreto"}, ssl \in BOOLEAN, nf \in {"", "A", "B", "Z"} }

FormRendered(f) ==
    /\ f.sitio_predeterminado => f.nombre_sitio = ""
    /\ f.usar_dominio => f.usuario = ""
    /\ ~f.usar_dominio => f.dominio = "" /\ f.usuario_base = ""

\* The forms of the session specification
SesForms ==
    { Form(URL, TRUE, "", TRUE, "JUNTA", "ana", "", pw, TRUE, nf) :
        pw \in {"", "secreto"}, nf \in {"A", "Z"} }

Versions == { Version(2, <<5>>), Version(2, <<7>>), Version(2, <<8>>),
              Version(2, <<1, 0>>), Version(3, <<0>>), Version(3, <<1, 0>>) }

DSSizes == {0, 1, 2, 10, 11, MaxDS}

Env(connectOk, version, fuentes, lookupOk, listOk, refreshOk, signOutOk) ==
    [connectOk |-> connectOk, version |-> version, fuentes |-> fuentes,
     lookupOk |-> lookupOk, listOk |-> listOk, refreshOk |-> refreshOk,
     signOutOk |-> signOutOk]

\* No call reaches the server, or none but sign_out
NoEnv == Env(FALSE, Version(0, <<0>>), <<>>, TRUE, TRUE, TRUE, TRUE)
EnvSignOut(ok) == Env(FALSE, Version(0, <<0>>), <<>>, TRUE, TRUE, TRUE, ok)

\* The answers of the one-run remote specification: a failed sign_in leaves
\* only sign_out to answer
Envs ==
    { Env(TRUE, v, Fuentes(n), lo, li, re, so) :
        v \in Versions, n \in DSSizes, lo \in BOOLEAN, li \in BOOLEAN,
        re \in BOOLEAN, so \in BOOLEAN }
    \cup { EnvSignOut(so) : so \in BOOLEAN }

\* The answers of the session specification
SesEnvs ==
    { Env(TRUE, v, Fuentes(2), TRUE, TRUE, re, so) :
        v \in {Version(2, <<5>>), Version(3, <<0>>)}, re \in BOOLEAN, so \in BOOLEAN }
    \cup { EnvSignOut(so) : so \in BOOLEAN }

Req(kind, archivos, nombre_hoja, nombre_hoja_salida, form, env) ==
    [kind |-> kind, archivos |-> archivos, nombre_hoja |-> nombre_hoja,
     nombre_hoja_salida |-> nombre_hoja_salida, form |-> form, env |-> env]

NoReq == Req("none", <<>>, "", "", NoForm, NoEnv)

----------------------------------------------------------------------------
(* Script runs *)

Init ==
    /\ session = EmptySession
    /\ ui = <<>>
    /\ calls = NoCalls
    /\ ret = NoRet
    /\ req = NoReq
    /\ pc = "ready"
    /\ exc = FALSE

Run(R, r) ==
    /\ session' = R.session
    /\ ui' = R.ui
    /\ calls' = R.calls
    /\ ret' = R.ret
    /\ exc' = R.exc
    /\ req' = r
    /\ pc' = "done"

\* A script run started by the button "Unificar Archivos"
ClickUnificar(uploaded_files, nombre_hoja, nombre_hoja_salida, env) ==
    Run(Main(session, TRUE, uploaded_files, nombre_hoja, nombre_hoja_salida,
             FALSE, NoForm, env),
        Req("unificar", uploaded_files, nombre_hoja, nombre_hoja_salida, NoForm, env))

\* A script run started by the form button "Conectar a Tableau Server"; the
\* form exists only once the session holds df_unificado
ClickConectar(form, env) ==
    /\ HasAttr(session, "df_unificado")
    /\ Run(Main(session, FALSE, <<>>, "", "", TRUE, form, env),
           Req("conectar", <<>>, "", "", form, env))

\* A script run started by any other widget
Rerun(env) ==
    Run(Main(session, FALSE, <<>>, "", "", FALSE, NoForm, env),
        Req("rerun", <<>>, "", "", NoForm, env))

\* unificar_archivos_subidos called on its own, outside main
LlamarUnificar(archivos, nombre_hoja) ==
    LET u == unificar_archivos_subidos(archivos, nombre_hoja)
    IN  Run([RunInit(session) EXCEPT !.ui = u.ui, !.calls.read = u.read,
                                     !.ret = [df |-> u.df, mensaje |-> u.mensaje]],
            Req("llamada", archivos, nombre_hoja, "", NoForm, NoEnv))

----------------------------------------------------------------------------
(* The session: any sequence of script runs *)

SesUnificar ==
    \E archivos \in SeqsUpTo(SesFiles, MaxSesFiles), h \in {"Itemization", "Hoja1"},
       o \in HojasSalida, so \in BOOLEAN :
        ClickUnificar(archivos, h, o, EnvSignOut(so))

SesConectar ==
    \E form \in SesForms, env \in SesEnvs : ClickConectar(form, env)

SesRerun ==
    \E so \in BOOLEAN : Rerun(EnvSignOut(so))

Next == SesUnificar \/ SesConectar \/ SesRerun

Spec == Init /\ [][Next]_vars

----------------------------------------------------------------------------
(* One merge from the empty session *)

MergeClick ==
    /\ pc = "ready"
    /\ \E archivos \in SeqsUpTo(Files, MaxFiles), h \in HojasEntrada, o \in HojasSalida :
          ClickUnificar(archivos, h, o, NoEnv)

MergeLlamada ==
    /\ pc = "ready"
    /\ \E archivos \in SeqsUpTo(Files, MaxFiles), h \in HojasEntrada :
          LlamarUnificar(archivos, h)

NextMerge == MergeClick \/ MergeLlamada

SpecMerge == Init /\ [][NextMerge]_vars

----------------------------------------------------------------------------
(* One submit of the Tableau form after one merge *)

RemoteUnificar ==
    /\ pc = "ready"
    /\ \E archivos \in SeqsUpTo(SesFiles, 1), o \in HojasSalida :
          ClickUnificar(archivos, "Itemization", o, NoEnv)

RemoteConectar ==
    /\ req.kind = "unificar"
    /\ \E form \in {f \in Forms : FormRendered(f)} :
         \E env \in (IF FaltanCampos(form) THEN {NoEnv} ELSE Envs) :
            ClickConectar(form, env)

NextRemote == RemoteUnificar \/ RemoteConectar

SpecRemote == Init /\ [][NextRemote]_vars

----------------------------------------------------------------------------
(* The merge: what a finished run is compared against *)

N == Len(req.archivos)

\* The run handed the batch to unificar_archivos_subidos
Unifico ==
    /\ pc = "done"
    /\ \/ req.kind = "llamada"
       \/ req.kind = "unificar" /\ req.archivos # <<>> /\ req.nombre_hoja # ""

\* The inputs whose sheet the Reader can read
Leible(i) == ReadExcel(req.archivos[i], req.nombre_hoja, Engine(req.archivos[i].name)).ok
Leibles == {i \in 1..N : Leible(i)}
K == N - Cardinality(Leibles)

\* The rows of the readable inputs before input i, and of all of them
RECURSIVE FilasAntes(_)
FilasAntes(i) ==
    IF i <= 1 THEN 0
    ELSE FilasAntes(i - 1) + (IF Leible(i - 1) THEN req.archivos[i - 1].filas ELSE 0)
TotalFilas == FilasAntes(N + 1)

\* C1: a batch of N >= 1 inputs of which K fail to read: every input is
\* handed to the Reader exactly once and in order, K errors are shown and
\* N-K inputs are reported read, and with K < N the dataset holds rows of
\* every read input that has rows and of no failed input.
C1_FallosNoAbortan ==
    (Unifico /\ N >= 1) =>
        /\ calls.read = [i \in 1..N |-> i]
        /\ Count(ui, "write", "procesando") = N
        /\ Count(ui, "error", "error_procesar") = K
        /\ Count(ui, "write", "leidas") = N - K
        /\ ret.df.some => ret.mensaje.n[1] = N - K
        /\ K < N =>
             /\ ret.df.some
             /\ {ret.df.rows[p].f : p \in 1..Len(ret.df.rows)}
                  = {req.archivos[i].name.stem : i \in {j \in Leibles : req.archivos[j].filas > 0}}

\* A batch of three whose first input fails and whose later inputs are read
C1_Witness ==
    /\ Unifico /\ N = 3 /\ K = 1
    /\ ~Leible(1) /\ Leible(2) /\ Leible(3)
    /\ calls.read = <<1, 2, 3>>
    /\ ret.df.some /\ ret.mensaje.n[1] = 2

\* C2: the rows of the dataset are the rows of the read inputs in the order
\* of the inputs: row k of read input i stands at position (rows of the read
\* inputs before i) + k, and there are no other rows.
C2_OrdenDeEntrada ==
    (Unifico /\ ret.df.some) =>
        /\ Len(ret.df.rows) = TotalFilas
        /\ \A i \in Leibles : \A k \in 1..req.archivos[i].filas :
              ret.df.rows[FilasAntes(i) + k] = [f |-> req.archivos[i].name.stem, k |-> k]

\* Two read inputs with rows and a failed input between them
C2_Witness ==
    /\ Unifico /\ N = 3 /\ ret.df.some
    /\ Leible(1) /\ ~Leible(2) /\ Leible(3)
    /\ req.archivos[1] # req.archivos[3]
    /\ req.archivos[1].filas > 0 /\ req.archivos[3].filas > 0
    /\ ret.df.rows[1].f = req.archivos[1].name.stem
    /\ ret.df.rows[Len(ret.df.rows)].f = req.archivos[3].name.stem

\* C3: with at least one read input, the dataset and the total of the
\* report both count the sum of the rows of the read inputs; inputs of 10,
\* 15 and 0 rows give 3 read, none failed, 25 rows.
C3_TotalDeFilas ==
    (Unifico /\ Leibles # {}) =>
        /\ ret.df.some
        /\ Len(ret.df.rows) = TotalFilas
        /\ ret.mensaje.tag = "unificado"
        /\ ret.mensaje.n[2] = TotalFilas
        /\ ( /\ N = 3 /\ K = 0
             /\ req.archivos[1].filas = 10 /\ req.archivos[2].filas = 15
             /\ req.archivos[3].filas = 0 )
           => /\ ret.mensaje.n = <<3, 25>>
              /\ Count(ui, "error", "error_procesar") = 0

\* The batch of 10, 15 and 0 rows, clicked in main
C3_Witness ==
    /\ Unifico /\ req.kind = "unificar" /\ N = 3 /\ K = 0
    /\ req.archivos[1].filas = 10 /\ req.archivos[2].filas = 15 /\ req.archivos[3].filas = 0
    /\ Len(session["df_unificado"]) = 25
    /\ \E p \in 1..Len(ui) : ui[p].kind = "success" /\ ui[p].n = <<3, 25>>

\* C4: a dataset is returned exactly when an input was read; no input at
\* all: nothing is handed to the Reader and nothing is counted; every input
\* failed: the total-failure message, and main writes no artifact, offers no
\* download and stores nothing in the session.
C4_SinDatos ==
    (pc = "done" /\ req.kind \in {"unificar", "llamada"}) =>
        /\ ret.df.some <=> (Unifico /\ Leibles # {})
        /\ N = 0 =>
             /\ calls.read = <<>>
             /\ Count(ui, "write", "procesando") = 0
             /\ Count(ui, "write", "leidas") = 0
             /\ Count(ui, "error", "error_procesar") = 0
        /\ (req.kind = "llamada" /\ N = 0) => ret.mensaje.tag = "sin_archivos"
        /\ (Unifico /\ N >= 1 /\ Leibles = {}) => ret.mensaje.tag = "ninguno_procesado"
        /\ (req.kind = "unificar" /\ ~ret.df.some) =>
             /\ calls.write = 0
             /\ \A p \in 1..Len(ui) : ui[p].kind # "download"
             /\ ui[Len(ui) - 1].kind = "error"
             /\ DOMAIN session = {}

\* Three inputs, all failed, clicked in main
C4_Witness ==
    /\ Unifico /\ req.kind = "unificar" /\ N = 3 /\ K = 3
    /\ ~ret.df.some
    /\ Count(ui, "error", "ninguno_procesado") = 1

----------------------------------------------------------------------------
(* The remote step: what a finished run is compared against *)

\* The run submitted a complete form
Envio == pc = "done" /\ req.kind = "conectar" /\ ~FaltanCampos(req.form)

Conectado == Envio /\ req.env.connectOk

\* The positions of the data sources that bear the name asked for
Coinciden == {i \in 1..Len(req.env.fuentes) :
                req.env.fuentes[i].name = req.form.nombre_fuente_datos}

Encontrada == Conectado /\ req.env.lookupOk /\ Coinciden # {}
SinCoincidencia == Conectado /\ req.env.lookupOk /\ Coinciden = {}

\* The minor version as a number: "2.10" has minor version 10
MinorNum(v) == IF Len(v.minor) = 1 THEN v.minor[1] ELSE v.minor[1] * 10 + v.minor[2]

\* Version major.minor is at least 2.8
AlMenos28(v) == v.major > 2 \/ (v.major = 2 /\ MinorNum(v) >= 8)

FalloRefresh == calls.refresh = 1 /\ ~req.env.refreshOk

\* The manual-update block naming the server, the data source and the
\* artifact of the session
HayInstrucciones ==
    /\ \E p \in 1..Len(ui) :
          /\ ui[p].kind = "code" /\ ui[p].tag = "instrucciones"
          /\ ui[p].s = <<req.form.tableau_server, req.form.nombre_fuente_datos>>
    /\ \E p \in 1..Len(ui) : ui[p].kind = "download" /\ ui[p].tag = "descargar_manual"

Errores == Len(SelectSeq(ui, LAMBDA e : e.kind = "error"))

C6_InstruccionesSiempre ==
    (Encontrada /\ (~AlMenos28(req.env.version) \/ FalloRefresh)) => HayInstrucciones

\* C7: every error of the remote step (connect, lookup, refresh) falls back
\* to the manual-update block; stated for the sessions that hold an artifact.
C7_ErroresConInstrucciones ==
    ( /\ Envio /\ HasAttr(session, "excel_buffer")
      /\ \/ ~req.env.connectOk
         \/ Conectado /\ ~Encontrada
         \/ FalloRefresh )
    => (Errores = 1 /\ HayInstrucciones)

\* C8: after a successful connect the run attempts sign-out once, whichever
\* way it ends (refresh started, refresh failed, manual path, data source
\* not found), and a failed sign-out shows nothing and ends nothing: the
\* only error shown is the one of the remote step itself.
C8_CierreDeSesion ==
    Conectado =>
        /\ calls.signOut = 1
        /\ ~exc
        /\ HasAttr(session, "server")
        /\ Errores = (IF ~Encontrada \/ FalloRefresh THEN 1 ELSE 0)

\* A failed sign-out after a failed refresh
C8_Witness ==
    /\ Conectado /\ Encontrada /\ FalloRefresh
    /\ ~req.env.signOutOk
    /\ calls.signOut = 1

\* The names listed and the count that follows them
Listados == SelectSeq(ui, LAMBDA e : e.kind = "write" /\ e.tag = "fuente")
Restantes == SelectSeq(ui, LAMBDA e : e.kind = "write" /\ e.tag = "y_mas")

\* The listing of the first names of a sequence of L names
ListaDe(L, nombres) ==
    /\ Len(Listados) = Min(L, 10)
    /\ \A i \in 1..Len(Listados) :
          Listados[i].s = <<nombres[i]>> /\ Listados[i].n = <<i>>
    /\ IF L > 10 THEN Len(Restantes) = 1 /\ Restantes[1].n = <<L - 10>>
       ELSE Restantes = <<>>

\* The first data source that bears the name is reported found, and nothing is listed
PrimeraCoincidencia ==
    Encontrada =>
        /\ \E p \in 1..Len(ui) :
              /\ ui[p].kind = "success" /\ ui[p].tag = "encontrada"
              /\ ui[p].n[1] \in Coinciden
              /\ \A i \in Coinciden : ui[p].n[1] <= i
        /\ calls.list = 0
        /\ Listados = <<>> /\ Restantes = <<>>

C10_CacheConsistente ==
    HasAttr(session, "df_unificado") =>
        /\ HasAttr(session, "excel_buffer")
        /\ HasAttr(session, "nombre_archivo")
        /\ session["excel_buffer"].rows = session["df_unificado"]

====
